---- MODULE Spec2Model ----
(***************************************************************************)
(* A model of app.py, the "DC Dashboard" photo service: the upload         *)
(* pipeline (content type check, hash, clock, decode, EXIF, recognition,   *)
(* file write, row insert, commit), the photos table, the upload           *)
(* directory, the dashboard's three queries and the stateless routes.      *)
(*                                                                         *)
(* Scheduling.  upload_photo is a coroutine whose only suspension point is *)
(* `await photo.read()`: from the line after it to the return it runs on   *)
(* the event loop without yielding, so no other upload runs in between.    *)
(* dashboard, __diag, __ping, upload_form and get_image are plain          *)
(* functions, which the framework runs on worker threads: they interleave  *)
(* with everything, statement by statement.                                *)
(*                                                                         *)
(* Text is a sequence of one-character strings.  An optional value (a      *)
(* Python value that may be None) is <<>> for None and <<v>> for v.        *)
(***************************************************************************)
EXTENDS Integers, Sequences, FiniteSets, TLC

VARIABLES
    clock,          \* the wall clock, in ticks (TicksPerSec ticks to a second)
    OCR_AVAILABLE,  \* the module-level flag set by the import at lines 11-15
    up,             \* up[u]: the locals and position of upload request u
    files,          \* the upload directory: filename -> what the file holds
    db,             \* dc.db: whether table photos exists, its committed rows in
                    \* insertion order, and sqlite_sequence.seq (AUTOINCREMENT)
    dash,           \* the locals and position of the dashboard render
    ptext,          \* the text handed to _parse_numbers
    presult         \* what _parse_numbers returned for ptext

vars == <<clock, OCR_AVAILABLE, up, files, db, dash, ptext, presult>>

----------------------------------------------------------------------------
(* Bounds of the model *)

MaxUploads == 2
MaxClock == 2
TicksPerSec == 2
MaxLen == 4

Uploads == 1..MaxUploads

(* Optional values *)
None == <<>>
Some(v) == <<v>>
IsNone(o) == o = <<>>
Val(o) == o[1]

----------------------------------------------------------------------------
(* Characters and text *)

Digits == <<"0", "1", "2", "3", "4", "5", "6", "7", "8", "9">>

DigitSet == {Digits[i] : i \in 1..10}

DigitChar(d) == Digits[d + 1]

DigitVal(c) == CHOOSE d \in 0..9 : Digits[d + 1] = c

\* The characters of the stored timestamps in byte order: SQLite compares
\* TEXT columns with memcmp (BINARY collation).
AsciiOrder == <<"-", ".", "0", "1", "2", "3", "4", "5", "6", "7", "8", "9", ":", "T">>

Ord(c) == CHOOSE i \in 1..Len(AsciiOrder) : AsciiOrder[i] = c

RECURSIVE TextLess(_, _)
TextLess(a, b) ==
    IF b = <<>> THEN FALSE
    ELSE IF a = <<>> THEN TRUE
    ELSE IF Ord(Head(a)) < Ord(Head(b)) THEN TRUE
    ELSE IF Ord(Head(a)) > Ord(Head(b)) THEN FALSE
    ELSE TextLess(Tail(a), Tail(b))

TextLeq(a, b) == a = b \/ TextLess(a, b)

StartsWith(s, p) == Len(s) >= Len(p) /\ SubSeq(s, 1, Len(p)) = p

----------------------------------------------------------------------------
(* The clock: datetime.datetime.now(APP_TZ) and its two renderings *)

Second(t) == t \div TicksPerSec

Micro(t) == t % TicksPerSec

TwoDigits(n) == <<DigitChar((n \div 10) % 10), DigitChar(n % 10)>>

\* now.strftime("%Y%m%d_%H%M%S"): second granularity.  Within the model's
\* horizon only the seconds field changes.
StrfTime(t) == TwoDigits(Second(t))

\* now.isoformat(): the fraction is left out when the microsecond is 0; the
\* offset of America/Sao_Paulo is -03:00.
IsoFormat(t) ==
    <<"T">> \o TwoDigits(Second(t))
    \o (IF Micro(t) = 0 THEN <<>> ELSE <<".">> \o TwoDigits(Micro(t)))
    \o <<"-", "0", "3", ":", "0", "0">>

----------------------------------------------------------------------------
(* Regular expressions, as Python's re module runs them: a backtracking    *)
(* matcher that tries the alternatives of each construct in priority order *)
(* (greedy first).  Each matcher returns the positions at which its match  *)
(* may end, most preferred first; a position is the index of the next      *)
(* character to read.                                                      *)

At(text, i) == IF i >= 1 /\ i <= Len(text) THEN text[i] ELSE ""

IsDigit(c) == c \in DigitSet

IsSpace(c) == c \in {" ", "\t", "\n"}

UpperLetters == <<"T", "E", "M", "P", "R", "A", "U">>

LowerLetters == <<"t", "e", "m", "p", "r", "a", "u">>

\* re.I: letters compare without regard to case.
Lower(c) ==
    IF \E k \in 1..Len(UpperLetters) : UpperLetters[k] = c
    THEN LowerLetters[CHOOSE k \in 1..Len(UpperLetters) : UpperLetters[k] = c]
    ELSE c

RECURSIVE Flatten(_)
Flatten(ss) == IF ss = <<>> THEN <<>> ELSE Head(ss) \o Flatten(Tail(ss))

\* A literal word, case-insensitively.
LitEnds(text, i, word) ==
    IF i + Len(word) - 1 <= Len(text)
       /\ \A k \in 1..Len(word) : Lower(text[i + k - 1]) = word[k]
    THEN <<i + Len(word)>>
    ELSE <<>>

\* (?:t|temp|temperatura)?
LabelEnds(text, i) ==
    LitEnds(text, i, <<"t">>)
    \o LitEnds(text, i, <<"t", "e", "m", "p">>)
    \o LitEnds(text, i, <<"t", "e", "m", "p", "e", "r", "a", "t", "u", "r", "a">>)
    \o <<i>>

\* The length of the run of whitespace that starts at i.
RECURSIVE SpaceRun(_, _)
SpaceRun(text, i) == IF IsSpace(At(text, i)) THEN 1 + SpaceRun(text, i + 1) ELSE 0

\* \s*
SpaceEnds(text, i) ==
    LET n == SpaceRun(text, i) IN [k \in 1..(n + 1) |-> i + n + 1 - k]

\* [:=]?
SepEnds(text, i) == IF At(text, i) \in {":", "="} THEN <<i + 1, i>> ELSE <<i>>

\* -?
SignEnds(text, i) == IF At(text, i) = "-" THEN <<i + 1, i>> ELSE <<i>>

\* \d{1,2}
DigitsEnds(text, i) ==
    IF ~IsDigit(At(text, i)) THEN <<>>
    ELSE IF IsDigit(At(text, i + 1)) THEN <<i + 2, i + 1>>
    ELSE <<i + 1>>

\* (?:\.\d{1,2})?
FracEnds(text, i) ==
    IF At(text, i) = "." THEN DigitsEnds(text, i + 1) \o <<i>> ELSE <<i>>

\* \d{1,2}(?:\.\d{1,2})?
UnsignedEnds(text, i) ==
    LET ds == DigitsEnds(text, i)
    IN  Flatten([k \in 1..Len(ds) |-> FracEnds(text, ds[k])])

\* -?\d{1,2}(?:\.\d{1,2})?
NumberEnds(text, i) ==
    LET ss == SignEnds(text, i)
    IN  Flatten([k \in 1..Len(ss) |-> UnsignedEnds(text, ss[k])])

\* A match is <<start of group 1, end of group 1, end of the match>>.
\* (-?\d{1,2}(?:\.\d{1,2})?) as the group that ends the pattern
GroupAt(text, g) ==
    LET ends == NumberEnds(text, g) IN [k \in 1..Len(ends) |-> <<g, ends[k], ends[k]>>]

\* \s*(-?\d{1,2}(?:\.\d{1,2})?)
AfterSep(text, c) ==
    LET sp == SpaceEnds(text, c) IN Flatten([k \in 1..Len(sp) |-> GroupAt(text, sp[k])])

\* [:=]?\s*(-?\d{1,2}(?:\.\d{1,2})?)
FromSep(text, b) ==
    LET se == SepEnds(text, b) IN Flatten([k \in 1..Len(se) |-> AfterSep(text, se[k])])

\* \s*[:=]?\s*(-?\d{1,2}(?:\.\d{1,2})?)
AfterLabel(text, a) ==
    LET sp == SpaceEnds(text, a) IN Flatten([k \in 1..Len(sp) |-> FromSep(text, sp[k])])

\* (?:t|temp|temperatura)?\s*[:=]?\s*(-?\d{1,2}(?:\.\d{1,2})?)  with re.I
TempPattern(text, i) ==
    LET ls == LabelEnds(text, i) IN Flatten([k \in 1..Len(ls) |-> AfterLabel(text, ls[k])])

\* % at e, closing a match that began at i with its group ending at g
PercentAt(text, i, g, e) == IF At(text, e) = "%" THEN <<<<i, g, e + 1>>>> ELSE <<>>

\* The humidity pattern without \s*: (\d{1,2}(?:\.\d{1,2})?)%
HumPatternTight(text, i) ==
    LET us == UnsignedEnds(text, i)
    IN  Flatten([k \in 1..Len(us) |-> PercentAt(text, i, us[k], us[k])])

\* \s*% after the group that ended at g
AfterNumber(text, i, g) ==
    LET sp == SpaceEnds(text, g) IN Flatten([k \in 1..Len(sp) |-> PercentAt(text, i, g, sp[k])])

\* (\d{1,2}(?:\.\d{1,2})?)\s*%
HumPattern(text, i) ==
    LET us == UnsignedEnds(text, i)
    IN  Flatten([k \in 1..Len(us) |-> AfterNumber(text, i, us[k])])

\* -?\d{1,2}(?:\.\d{1,2})?   (no group: findall returns the whole match)
NumPattern(text, i) ==
    LET ends == NumberEnds(text, i) IN [k \in 1..Len(ends) |-> <<i, ends[k], ends[k]>>]

\* The three patterns of _parse_numbers, by name.
Matches(pattern, text, i) ==
    CASE pattern = "temp" -> TempPattern(text, i)
      [] pattern = "hum"  -> HumPattern(text, i)
      [] OTHER            -> NumPattern(text, i)

\* re.findall: scan from the left; at each position take the preferred match,
\* if any, and go on from its end (every match of these patterns is non-empty).
RECURSIVE FindAllFrom(_, _, _)
FindAllFrom(pattern, text, i) ==
    IF i > Len(text) THEN <<>>
    ELSE LET ms == Matches(pattern, text, i)
         IN  IF ms = <<>> THEN FindAllFrom(pattern, text, i + 1)
             ELSE <<SubSeq(text, ms[1][1], ms[1][2] - 1)>> \o FindAllFrom(pattern, text, ms[1][3])

FindAll(pattern, text) == FindAllFrom(pattern, text, 1)

\* float(token) for a token -?\d{1,2}(?:\.\d{1,2})?, in hundredths: the
\* value of "23.5" is 2350.  (float("-0") is -0.0, which equals 0.0.)
ParseFloat(tok) ==
    LET neg == Head(tok) = "-"
        body == IF neg THEN Tail(tok) ELSE tok
        dot == IF \E k \in 1..Len(body) : body[k] = "."
               THEN CHOOSE k \in 1..Len(body) : body[k] = "."
               ELSE Len(body) + 1
        int == IF dot = 2 THEN DigitVal(body[1])
               ELSE 10 * DigitVal(body[1]) + DigitVal(body[2])
        nfrac == Len(body) - dot
        frac == IF nfrac <= 0 THEN 0
                ELSE IF nfrac = 1 THEN 10 * DigitVal(body[dot + 1])
                ELSE 10 * DigitVal(body[dot + 1]) + DigitVal(body[dot + 2])
        mag == 100 * int + frac
    IN  IF neg THEN 0 - mag ELSE mag

\* text.replace(",", ".")
ReplaceComma(text) == [k \in 1..Len(text) |-> IF text[k] = "," THEN "." ELSE text[k]]

\* _parse_numbers(text): <<temp, hum>>, each None or a number.
_parse_numbers(text0) ==
    LET text == ReplaceComma(text0)
        mtemp == FindAll("temp", text)
        temp1 == IF mtemp # <<>> THEN Some(ParseFloat(mtemp[1])) ELSE None
        mhum == FindAll("hum", text)
        hum1 == IF mhum # <<>> THEN Some(ParseFloat(mhum[1])) ELSE None
        nums == FindAll("num", text)
        temp2 == IF (IsNone(temp1) \/ IsNone(hum1)) /\ nums # <<>> /\ IsNone(temp1)
                 THEN Some(ParseFloat(nums[1])) ELSE temp1
        hum2 == IF (IsNone(temp1) \/ IsNone(hum1)) /\ nums # <<>>
                   /\ Len(nums) >= 2 /\ IsNone(hum1)
                THEN Some(ParseFloat(nums[2])) ELSE hum1
    IN  <<temp2, hum2>>

----------------------------------------------------------------------------
(* What a client may send *)

\* photo.content_type: None when the part declares none.
ContentTypes ==
    { None,
      Some(<<"i", "m", "a", "g", "e", "/", "j", "p", "e", "g">>),
      Some(<<"t", "e", "x", "t", "/", "p", "l", "a", "i", "n">>) }

\* The byte strings of the model: two images and one string of bytes that is
\* no image.
Contents == {"jpgA", "jpgC", "junk"}

\* hashlib.sha256(raw).hexdigest(), cut to ten hex digits.
Sha256(raw) ==
    CASE raw = "jpgA" -> <<"0", "a", "1", "b", "2", "c", "3", "d", "4", "e">>
      [] raw = "jpgC" -> <<"9", "f", "8", "e", "7", "d", "6", "c", "5", "b">>
      [] OTHER        -> <<"7", "7", "0", "0", "7", "7", "0", "0", "7", "7">>

\* Image.open(io.BytesIO(raw)).convert("RGB"): None stands for the exception
\* PIL raises on bytes that are no image.  exif is what img._getexif() returns,
\* as <<tag id, value>> pairs.
ImageOpen(raw) ==
    CASE raw = "jpgA" -> Some([width |-> 640, height |-> 480,
                               exif |-> << <<271, "Acme">>, <<272, "CamX">> >>])
      [] raw = "jpgC" -> Some([width |-> 320, height |-> 240, exif |-> <<>>])
      [] OTHER        -> None

\* ExifTags.TAGS.get(k, k), then str().
TagName(k) == IF k = 271 THEN "Make" ELSE IF k = 272 THEN "Model" ELSE "Tag"

\* _exif_to_dict(img): the dict as its <<key, value>> items in insertion order.
_exif_to_dict(img) == [k \in 1..Len(img.exif) |-> <<TagName(img.exif[k][1]), img.exif[k][2]>>]

\* exif.get(key): "" stands for None (both are falsy to `or`).
ExifGet(exif, key) ==
    IF \E k \in 1..Len(exif) : exif[k][1] = key
    THEN exif[CHOOSE k \in 1..Len(exif) : exif[k][1] = key][2]
    ELSE ""

\* exif.get("Model") or exif.get("Make") or ""
DeviceModel(exif) ==
    IF ExifGet(exif, "Model") # "" THEN ExifGet(exif, "Model")
    ELSE IF ExifGet(exif, "Make") # "" THEN ExifGet(exif, "Make")
    ELSE ""

\* The name as it would be without the hash: the timestamp alone.
FileNameNoHash(now, sha) == StrfTime(now) \o <<".", "j", "p", "g">>

\* fname = f"{ts}_{sha[:8]}.jpg"
FileName(now, sha) == StrfTime(now) \o <<"_">> \o SubSeq(sha, 1, 8) \o <<".", "j", "p", "g">>

----------------------------------------------------------------------------
(* Recognition *)

\* The flag as it would be were recognition enabled when the import succeeds.
ImportFlagEnabled(imported) == imported

\* The import at lines 11-15: the flag is False whether or not pytesseract
\* could be imported.
ImportFlag(imported) == IF imported THEN FALSE ELSE FALSE

\* What pytesseract.image_to_string may do: raise, or return a text.
OcrTexts == { <<"2", "7", " ", "5", "5">>, <<"x", "y", "z">> }

BackendOutcomes == { <<"raise">> } \cup { <<"text", t>> : t \in OcrTexts }

\* run_ocr without the try/except around the backend call.
run_ocr_unguarded(available, outcome) ==
    IF ~available THEN <<None, None>>
    ELSE IF outcome[1] = "raise" THEN <<"raise">>
    ELSE _parse_numbers(outcome[2])

\* run_ocr(img): <<temp, hum>>.  A result that is no pair stands for an
\* exception leaving run_ocr.
run_ocr(available, outcome) ==
    IF ~available THEN <<None, None>>
    ELSE IF outcome[1] = "raise" THEN <<None, None>>
    ELSE _parse_numbers(outcome[2])

----------------------------------------------------------------------------
(* The database *)

NoDb == [exists |-> FALSE, photos |-> <<>>, seq |-> 0]

\* init_db() as it would be without IF NOT EXISTS semantics: the table is made
\* anew at every start.
init_db_recreate(d) == [exists |-> TRUE, photos |-> <<>>, seq |-> 0]

\* init_db(): CREATE TABLE IF NOT EXISTS photos (...); commit.
init_db(d) == IF d.exists THEN d ELSE [exists |-> TRUE, photos |-> <<>>, seq |-> 0]

\* The row upload_photo inserts, with the id AUTOINCREMENT gives it.
Row(r, id) ==
    LET img == Val(ImageOpen(r.raw))
        exif == _exif_to_dict(img)
    IN  [ id |-> id,
          taken_at |-> IsoFormat(r.now),
          filename |-> FileName(r.now, Sha256(r.raw)),
          sha256 |-> Sha256(r.raw),
          width |-> img.width,
          height |-> img.height,
          exif_json |-> IF exif # <<>> THEN Some(exif) ELSE None,
          ocr_temp_c |-> r.ocr[1],
          ocr_humidity |-> r.ocr[2],
          device_model |-> DeviceModel(exif) ]

\* con.commit() of the INSERT: the row becomes visible, and sqlite_sequence
\* with it.
CommitInsert(d, row) == [d EXCEPT !.photos = Append(@, row), !.seq = row.id]

Range(s) == {s[i] : i \in 1..Len(s)}

Perms(S) == {s \in [1..Cardinality(S) -> S] : \A i, j \in 1..Cardinality(S) : i # j => s[i] # s[j]}

\* ORDER BY taken_at DESC / ASC over a set of rows: every order of the rows
\* that is sorted by taken_at.  The statement names no second key, and SQLite
\* leaves the order of rows with equal keys undefined.
OrderByDesc(S) ==
    {s \in Perms(S) : \A i, j \in 1..Len(s) : i < j => TextLeq(s[j].taken_at, s[i].taken_at)}

OrderByAsc(S) ==
    {s \in Perms(S) : \A i, j \in 1..Len(s) : i < j => TextLeq(s[i].taken_at, s[j].taken_at)}

\* LIMIT n
Limit(s, n) == IF Len(s) <= n THEN s ELSE SubSeq(s, 1, n)

\* The N of the recent-records table.
TableLimit == 20

\* The first query with ASC for DESC.
LastResultsAsc(d) ==
    {IF s = <<>> THEN None ELSE Some(s[1]) : s \in {Limit(t, 1) : t \in OrderByAsc(Range(d.photos))}}

\* SELECT * FROM photos ORDER BY taken_at DESC LIMIT 1;  then fetchone()
LastResults(d) ==
    {IF s = <<>> THEN None ELSE Some(s[1]) : s \in {Limit(t, 1) : t \in OrderByDesc(Range(d.photos))}}

\* SELECT taken_at, ocr_temp_c, ocr_humidity FROM photos
\* WHERE ocr_temp_c IS NOT NULL OR ocr_humidity IS NOT NULL ORDER BY taken_at ASC;
SeriesResults(d) ==
    LET sel == {r \in Range(d.photos) : ~IsNone(r.ocr_temp_c) \/ ~IsNone(r.ocr_humidity)}
    IN  { [k \in 1..Len(s) |-> [taken_at |-> s[k].taken_at, ocr_temp_c |-> s[k].ocr_temp_c,
                                ocr_humidity |-> s[k].ocr_humidity]] : s \in OrderByAsc(sel) }

\* The third query with ASC for DESC.
TableResultsAsc(d) == {Limit(s, TableLimit) : s \in OrderByAsc(Range(d.photos))}

\* SELECT * FROM photos ORDER BY taken_at DESC LIMIT 20;  then fetchall()
TableResults(d) == {Limit(s, TableLimit) : s \in OrderByDesc(Range(d.photos))}

----------------------------------------------------------------------------
(* Initial states *)

\* status is the HTTP status of the response, 0 while there is none.
NewUpload ==
    [ pc |-> "new", at |-> "", status |-> 0, ct |-> None, raw |-> "", now |-> 0,
      backend |-> "", ocr |-> <<None, None>>, rowid |-> 0 ]

IdleDash == [pc |-> "idle", last |-> None, series |-> <<>>, table |-> <<>>, seen |-> 0]

InitRest ==
    /\ clock = 0
    /\ up = [u \in Uploads |-> NewUpload]
    /\ files = <<>>
    /\ db = init_db(NoDb)
    /\ dash = IdleDash

\* The program after import: the flag is what the import at lines 11-15 left.
Init ==
    /\ InitRest
    /\ \E imported \in BOOLEAN : OCR_AVAILABLE = ImportFlag(imported)
    /\ ptext = <<>>
    /\ presult = None

\* The same program with the recognition stage wired in or not.
InitOcr ==
    /\ InitRest
    /\ OCR_AVAILABLE \in BOOLEAN
    /\ ptext = <<>>
    /\ presult = None

----------------------------------------------------------------------------
(* upload_photo *)

\* The positions from which the coroutine runs to its end without yielding.
SyncPcs == {"decode", "ocr", "save", "insert", "commit"}

InFlight == SyncPcs \cup {"read"}

\* The scheduling as it would be if the coroutine yielded after reading the
\* clock: uploads interleave everywhere.
BusyNever == FALSE

\* An upload is running between its `await` and its return: the event loop
\* runs nothing else until it ends.
Busy == \E u \in Uploads : up[u].pc \in SyncPcs

Others == <<clock, OCR_AVAILABLE, dash, ptext, presult>>

\* A request that ended before it wrote anything leaves no locals behind; one
\* that ended later keeps raw and now, as the history of what it wrote.
\* HTTPException(400) answers 400, any other exception 500; a request lost
\* with the process gets no response.
Ended(r, pc, at) ==
    LET status == IF pc = "rejected" THEN 400 ELSE IF pc = "failed" THEN 500 ELSE 0
    IN  IF at \in {"check", "read", "decode", "ocr"}
        THEN [NewUpload EXCEPT !.pc = pc, !.at = at, !.status = status, !.ct = r.ct]
        ELSE [r EXCEPT !.pc = pc, !.at = at, !.status = status,
                       !.backend = "", !.ocr = <<None, None>>, !.rowid = 0]

\* The check of the content type left out.
IsImageTypeAny(ct) == TRUE

\* photo.content_type.startswith("image/")
IsImageType(ct) == StartsWith(ct, <<"i", "m", "a", "g", "e", "/">>)

\* Lines 167-170: the content type check, up to `await photo.read()`.
\* None.startswith raises AttributeError (a 500); a type that does not start
\* with "image/" gets HTTPException(400).
Start(u) ==
    /\ up[u].pc = "new"
    /\ IF u = 1 THEN TRUE ELSE up[u - 1].pc # "new"
    /\ ~Busy
    /\ \E ct \in ContentTypes :
          up' = [up EXCEPT ![u] =
                    IF IsNone(ct) THEN Ended([@ EXCEPT !.ct = ct], "failed", "check")
                    ELSE IF ~IsImageType(Val(ct))
                         THEN Ended([@ EXCEPT !.ct = ct], "rejected", "check")
                    ELSE [@ EXCEPT !.ct = ct, !.pc = "read"]]
    /\ UNCHANGED <<files, db, Others>>

\* Lines 170-175: the read completes; sha, now, ts, fname, path.
Resume(u) ==
    /\ up[u].pc = "read"
    /\ ~Busy
    /\ \E raw \in Contents :
          up' = [up EXCEPT ![u].raw = raw, ![u].now = clock, ![u].pc = "decode"]
    /\ UNCHANGED <<files, db, Others>>

\* Lines 177-179: decode, EXIF, device_model.
Decode(u) ==
    /\ up[u].pc = "decode"
    /\ up' = [up EXCEPT ![u] = IF IsNone(ImageOpen(@.raw))
                                THEN Ended(@, "failed", "decode")
                                ELSE [@ EXCEPT !.pc = "ocr"]]
    /\ UNCHANGED <<files, db, Others>>

\* Line 181: ocr_temp, ocr_hum = run_ocr(img).
Ocr(u) ==
    /\ up[u].pc = "ocr"
    /\ \E outcome \in BackendOutcomes :
          LET r == run_ocr(OCR_AVAILABLE, outcome)
          IN  up' = IF Len(r) = 2
                    THEN [up EXCEPT ![u].ocr = r,
                                    ![u].backend = IF OCR_AVAILABLE THEN outcome[1] ELSE "off",
                                    ![u].pc = "save"]
                    ELSE [up EXCEPT ![u] = Ended(@, "failed", "ocr")]
    /\ UNCHANGED <<files, db, Others>>

\* What img.save(path, format="JPEG", quality=90) leaves at path.
StoredFile(raw) == [raw |-> raw, complete |-> TRUE]

WriteFile(fs, name, file) == (name :> file) @@ fs

\* Lines 182-183: the file is written (over whatever has that name).
Save(u) ==
    /\ up[u].pc = "save"
    /\ files' = WriteFile(files, FileName(up[u].now, Sha256(up[u].raw)), StoredFile(up[u].raw))
    /\ up' = [up EXCEPT ![u].pc = "insert"]
    /\ UNCHANGED <<db, Others>>

RemoveFile(fs, name) == [n \in (DOMAIN fs) \ {name} |-> fs[n]]

\* A failed save that cleans up after itself by unlinking path.
SaveFailUnlink(u) ==
    /\ up[u].pc = "save"
    /\ files' = RemoveFile(files, FileName(up[u].now, Sha256(up[u].raw)))
    /\ up' = [up EXCEPT ![u] = Ended(@, "failed", "save")]
    /\ UNCHANGED <<db, Others>>

\* img.save raises: before the file is opened, or part way through writing it.
SaveFail(u) ==
    /\ up[u].pc = "save"
    /\ \E opened \in BOOLEAN :
          files' = IF opened
                   THEN WriteFile(files, FileName(up[u].now, Sha256(up[u].raw)),
                                  [raw |-> up[u].raw, complete |-> FALSE])
                   ELSE files
    /\ up' = [up EXCEPT ![u] = Ended(@, "failed", "save")]
    /\ UNCHANGED <<db, Others>>

\* Lines 185-200: connect and execute the INSERT; the row is not committed yet.
Insert(u) ==
    /\ up[u].pc = "insert"
    /\ db.exists
    /\ up' = [up EXCEPT ![u].rowid = db.seq + 1, ![u].pc = "commit"]
    /\ UNCHANGED <<files, db, Others>>

\* Lines 201-204: commit, close, redirect (303).
Commit(u) ==
    /\ up[u].pc = "commit"
    /\ db' = CommitInsert(db, Row(up[u], up[u].rowid))
    /\ up' = [up EXCEPT ![u].pc = "done", ![u].status = 303]
    /\ UNCHANGED <<files, Others>>

\* sqlite3 raises in connect, execute or commit: the transaction is rolled
\* back and the request ends with a 500.
DbFail(u) ==
    /\ up[u].pc \in {"insert", "commit"}
    /\ up' = [up EXCEPT ![u] = Ended(@, "failed", @.pc)]
    /\ UNCHANGED <<files, db, Others>>

\* The process dies and is started again: the requests in flight are lost,
\* files and committed rows stay, and init_db() runs at import.
Restart ==
    /\ \E u \in Uploads : up[u].pc \in InFlight
    /\ up' = [u \in Uploads |->
                 IF up[u].pc \in InFlight
                 THEN Ended(up[u], "crashed", up[u].pc)
                 ELSE up[u]]
    /\ db' = init_db(db)
    /\ dash' = IdleDash
    /\ UNCHANGED <<clock, OCR_AVAILABLE, files, ptext, presult>>

\* Time passes.
Tick ==
    /\ clock < MaxClock
    /\ clock' = clock + 1
    /\ UNCHANGED <<OCR_AVAILABLE, up, files, db, dash, ptext, presult>>

----------------------------------------------------------------------------
(* dashboard: three statements on one connection, each its own read *)

NoDash == <<clock, OCR_AVAILABLE, up, files, db, ptext, presult>>

\* Lines 132-136.  seen notes the store the first query read.
DashLast ==
    /\ dash.pc = "idle"
    /\ db.exists
    /\ \E last \in LastResults(db) :
          dash' = [dash EXCEPT !.pc = "q2", !.last = last, !.seen = db.seq]
    /\ UNCHANGED NoDash

\* Lines 138-144.
DashSeries ==
    /\ dash.pc = "q2"
    /\ \E series \in SeriesResults(db) :
          dash' = [dash EXCEPT !.pc = "q3", !.series = series]
    /\ UNCHANGED NoDash

\* Lines 146-149.
DashTable ==
    /\ dash.pc = "q3"
    /\ \E table \in TableResults(db) :
          dash' = [dash EXCEPT !.pc = "render", !.table = table]
    /\ UNCHANGED NoDash

\* Lines 150-152: any exception gives the error page (500).
DashError ==
    /\ dash.pc \in {"idle", "q2", "q3"}
    /\ dash' = [IdleDash EXCEPT !.pc = "error"]
    /\ UNCHANGED NoDash

\* Lines 154-159 (or 152): the response is sent.
DashReturn ==
    /\ dash.pc \in {"render", "error"}
    /\ dash' = IdleDash
    /\ UNCHANGED NoDash

----------------------------------------------------------------------------
(* The stateless routes: each computes a response from what it reads and  *)
(* writes nothing.                                                         *)

\* __ping
PingResponse == [status |-> 200, body |-> <<"ok">>]

Ping ==
    /\ PingResponse.status = 200
    /\ UNCHANGED vars

\* __diag: SELECT COUNT(*) FROM photos, or the error as a 500.
DiagResponse(d) ==
    IF d.exists THEN [status |-> 200, body |-> <<Len(d.photos)>>]
    ELSE [status |-> 500, body |-> <<>>]

Diag ==
    /\ DiagResponse(db).status \in {200, 500}
    /\ UNCHANGED vars

\* upload_form
UploadForm == UNCHANGED vars

\* get_image(filename): the file, or 404 when no file has that name.
GetImageResponse(fs, name) ==
    IF name \in DOMAIN fs THEN [status |-> 200, body |-> <<fs[name]>>]
    ELSE [status |-> 404, body |-> <<>>]

GetImage ==
    /\ \E name \in (DOMAIN files) \cup {FileName(0, Sha256("junk"))} :
          GetImageResponse(files, name).status \in {200, 404}
    /\ UNCHANGED vars

----------------------------------------------------------------------------
(* The program *)

Next ==
    \/ \E u \in Uploads : Start(u)
    \/ \E u \in Uploads : Resume(u)
    \/ \E u \in Uploads : Decode(u)
    \/ \E u \in Uploads : Ocr(u)
    \/ \E u \in Uploads : Save(u)
    \/ \E u \in Uploads : SaveFail(u)
    \/ \E u \in Uploads : Insert(u)
    \/ \E u \in Uploads : Commit(u)
    \/ \E u \in Uploads : DbFail(u)
    \/ Restart
    \/ Tick
    \/ DashLast
    \/ DashSeries
    \/ DashTable
    \/ DashError
    \/ DashReturn
    \/ Ping
    \/ Diag
    \/ UploadForm
    \/ GetImage

Spec == Init /\ [][Next]_vars

SpecOcr == InitOcr /\ [][Next]_vars

----------------------------------------------------------------------------
(* _parse_numbers on its own: every text over Alphabet of at most MaxLen   *)
(* characters, and the texts of ExampleTexts.                              *)

Alphabet == {"t", ":", " ", "-", "2", "7", ".", ",", "%"}

BoundedTexts == UNION {[1..n -> Alphabet] : n \in 0..MaxLen}

ExampleTexts ==
    { <<"t", "e", "m", "p", ":", " ", "2", "3", ".", "5", ",", " ",
        "h", "u", "m", "i", "d", "i", "t", "y", " ", "6", "1", "%">>,
      <<"2", "7", " ", "5", "5">>,
      <<"x", "y", "z">>,
      <<"T", "E", "M", "P", "=", "-", "7", ",", "2", "5", " ", "4", "0", " ", "%">>,
      <<"6", "1", " ", "%", " ", "2", "7">> }

InitParse ==
    /\ InitRest
    /\ OCR_AVAILABLE = FALSE
    /\ ptext \in BoundedTexts \cup ExampleTexts
    /\ presult = None

Parse ==
    /\ IsNone(presult)
    /\ presult' = Some(_parse_numbers(ptext))
    /\ UNCHANGED <<clock, OCR_AVAILABLE, up, files, db, dash, ptext>>

NextParse == Parse

SpecParse == InitParse /\ [][NextParse]_vars

----------------------------------------------------------------------------
(* Properties *)

Rows == db.photos

IsPrefix(s, t) == Len(s) <= Len(t) /\ SubSeq(t, 1, Len(s)) = s

Committing(u) == up[u].pc = "commit" /\ up'[u].pc = "done"

\* C1: the record store is append-only.  No step changes or removes a row or
\* drops the table; the only step that adds a row is the commit of an upload,
\* which adds exactly one and ends that upload (so an upload adds at most one
\* row, and a completed one exactly one); a new row's id is greater than the
\* id of every row inserted before it, so ids increase in insertion order and
\* none is used twice.
C1_AppendOnly ==
    [][ /\ db'.exists
        /\ IsPrefix(Rows, Rows')
        /\ Rows' # Rows =>
              /\ Len(Rows') = Len(Rows) + 1
              /\ \E u \in Uploads :
                    /\ Committing(u)
                    /\ \A v \in Uploads \ {u} : up'[v] = up[v]
                    /\ Rows'[Len(Rows')].id = up[u].rowid
              /\ \A i \in 1..Len(Rows) : Rows[i].id < Rows'[Len(Rows')].id
              /\ Rows'[Len(Rows')].id > db.seq
        /\ (\E u \in Uploads : Committing(u)) => Len(Rows') = Len(Rows) + 1
        /\ Len(Rows') = Cardinality({u \in Uploads : up'[u].pc = "done"})
      ]_vars

\* C1 witness: two uploads committed a row each.
C1_Witness ==
    /\ Len(Rows) = 2
    /\ Rows[1].id < Rows[2].id

\* C5: a request whose declared content type does not start with "image/"
\* ends at the check with status 400, the step that rejects it changes neither
\* the files nor the rows, and the rejected request takes no step afterwards.
C5_RejectNoSideEffects ==
    [][ \A u \in Uploads :
          /\ (up[u].pc = "new" /\ up'[u].pc # "new" /\ ~IsNone(up'[u].ct)
              /\ Val(up'[u].ct) # <<"i", "m", "a", "g", "e", "/", "j", "p", "e", "g">>)
             => /\ up'[u].pc = "rejected"
                /\ up'[u].status = 400
                /\ files' = files
                /\ db' = db
          /\ up[u].pc = "rejected" => up'[u] = up[u]
      ]_vars

\* C5 witness: a request was rejected while the store held a file and a row.
C5_Witness ==
    \E u, v \in Uploads :
        /\ up[u].pc = "rejected"
        /\ up[u].status = 400
        /\ up[v].pc = "done"
        /\ Len(Rows) = 1
        /\ DOMAIN files # {}

\* C8: in every state every row's filename names a file of the upload
\* directory; no step removes a file; and the step that commits a row finds
\* its file already written.
C8_RecordsHaveFiles ==
    [][ /\ \A i \in 1..Len(Rows') : Rows'[i].filename \in DOMAIN files'
        /\ DOMAIN files \subseteq DOMAIN files'
        /\ \A u \in Uploads :
              Committing(u) => FileName(up[u].now, Sha256(up[u].raw)) \in DOMAIN files
      ]_vars

\* C8 witness: an upload failed between the file write and the commit and
\* left a file that no row names.
C8_Witness ==
    \E u \in Uploads :
        /\ up[u].pc \in {"failed", "crashed"}
        /\ up[u].at \in {"insert", "commit"}
        /\ FileName(up[u].now, Sha256(up[u].raw)) \in DOMAIN files
        /\ \A i \in 1..Len(Rows) : Rows[i].filename # FileName(up[u].now, Sha256(up[u].raw))

\* C9: recognition is off: the flag is False, run_ocr never calls the backend
\* and returns (None, None), every row has temperature and humidity None, and
\* the series query has the empty result, in the store and in every render.
C9_RecognitionOff ==
    /\ OCR_AVAILABLE = FALSE
    /\ \A u \in Uploads : up[u].backend \in {"", "off"} /\ up[u].ocr = <<None, None>>
    /\ \A i \in 1..Len(Rows) : IsNone(Rows[i].ocr_temp_c) /\ IsNone(Rows[i].ocr_humidity)
    /\ SeriesResults(db) = {<<>>}
    /\ dash.series = <<>>

\* C9 witness: a render of a store that holds two rows, with an empty series.
C9_Witness ==
    /\ dash.pc = "render"
    /\ Len(dash.table) = 2
    /\ dash.series = <<>>
    /\ \E u \in Uploads : up[u].backend = "off" /\ up[u].pc = "done"

\* C4: recognition never ends an upload.  Whatever the flag and whatever the
\* backend does, the step after run_ocr is the file write, with no response
\* sent; no request fails at run_ocr; when the backend is not called or
\* raises, both readings are None; and the commit that follows adds one row
\* carrying those readings and answers with the redirect (303).
C4_RecognitionNeverAborts ==
    [][ \A u \in Uploads :
          /\ (up[u].pc = "ocr" /\ up'[u].pc \notin {"ocr", "crashed"})
             => /\ up'[u].pc = "save"
                /\ up'[u].status = 0
                /\ (~OCR_AVAILABLE) => up'[u].backend = "off"
                /\ up'[u].backend \in {"off", "raise", "text"}
                /\ up'[u].backend \in {"off", "raise"} => up'[u].ocr = <<None, None>>
          /\ up'[u].pc = "failed" => up'[u].at # "ocr"
          /\ Committing(u)
             => /\ Len(Rows') = Len(Rows) + 1
                /\ Rows'[Len(Rows')].ocr_temp_c = up[u].ocr[1]
                /\ Rows'[Len(Rows')].ocr_humidity = up[u].ocr[2]
                /\ Rows'[Len(Rows')].filename \in DOMAIN files
                /\ up'[u].status = 303
                /\ up[u].backend \in {"off", "raise"}
                   => /\ IsNone(Rows'[Len(Rows')].ocr_temp_c)
                      /\ IsNone(Rows'[Len(Rows')].ocr_humidity)
      ]_vars

\* C4 witness: an upload whose backend call raised completed with a row that
\* has no reading, beside one whose text was parsed into a reading.
C4_Witness ==
    \E u, v \in Uploads :
        /\ up[u].pc = "done" /\ up[u].backend = "raise" /\ up[u].status = 303
        /\ \E i \in 1..Len(Rows) :
              /\ Rows[i].id = up[u].rowid
              /\ IsNone(Rows[i].ocr_temp_c) /\ IsNone(Rows[i].ocr_humidity)
        /\ up[v].pc = "done" /\ up[v].backend = "text" /\ up[v].ocr = <<Some(2700), Some(5500)>>

\* The uploads whose file write completed.
Wrote(u) ==
    \/ up[u].pc \in {"insert", "commit", "done"}
    \/ up[u].pc \in {"failed", "crashed"} /\ up[u].at \in {"insert", "commit"}

NameOf(u) == FileName(up[u].now, Sha256(up[u].raw))

Prefix8(u) == SubSeq(Sha256(up[u].raw), 1, 8)

\* C3 as stated: any two uploads that wrote their file wrote files of
\* different names, so there are as many names as such uploads.
C3_Original ==
    /\ \A u, v \in Uploads : (u # v /\ Wrote(u) /\ Wrote(v)) => NameOf(u) # NameOf(v)
    /\ Cardinality({NameOf(u) : u \in {w \in Uploads : Wrote(w)}})
          = Cardinality({w \in Uploads : Wrote(w)})

\* C3 as amended: two uploads that wrote their file have the same filename
\* exactly when they read the clock within the same second and their hashes
\* agree on the first eight digits; so uploads of the same bytes get different
\* names exactly when their seconds differ.  The files written are in the
\* directory, one per (second, hash prefix) pair.  Two completed uploads have
\* two rows with different ids, whatever their filenames.
C3_DistinctUnlessSameSecond ==
    /\ \A u, v \in Uploads : (u # v /\ Wrote(u) /\ Wrote(v)) =>
          /\ (NameOf(u) = NameOf(v))
                <=> (Second(up[u].now) = Second(up[v].now) /\ Prefix8(u) = Prefix8(v))
          /\ up[u].raw = up[v].raw
                => ((NameOf(u) # NameOf(v)) <=> (Second(up[u].now) # Second(up[v].now)))
          /\ (up[u].pc = "done" /\ up[v].pc = "done") =>
                /\ up[u].rowid # up[v].rowid
                /\ \E i, j \in 1..Len(Rows) :
                      i # j /\ Rows[i].id = up[u].rowid /\ Rows[j].id = up[v].rowid
    /\ {NameOf(u) : u \in {w \in Uploads : Wrote(w)}} \subseteq DOMAIN files
    /\ Cardinality({NameOf(u) : u \in {w \in Uploads : Wrote(w)}})
          = Cardinality({<<Second(up[u].now), Prefix8(u)>> : u \in {w \in Uploads : Wrote(w)}})

\* C3 witness: two uploads of the same bytes within one second completed:
\* one file, two rows.
C3_Witness ==
    /\ up[1].pc = "done" /\ up[2].pc = "done"
    /\ up[1].raw = up[2].raw
    /\ up[1].now # up[2].now
    /\ NameOf(1) = NameOf(2)
    /\ Cardinality(DOMAIN files) = 1
    /\ Len(Rows) = 2

\* C6 as stated: the table of a render has at most N rows, sorted by taken_at
\* descending, rows of equal taken_at in insertion order (ascending id).
C6_TiesByInsertion ==
    dash.pc = "render" =>
        /\ Len(dash.table) <= TableLimit
        /\ \A i, j \in 1..Len(dash.table) : i < j =>
              /\ TextLeq(dash.table[j].taken_at, dash.table[i].taken_at)
              /\ dash.table[i].taken_at = dash.table[j].taken_at
                    => dash.table[i].id < dash.table[j].id

Monotonic(rows) ==
    \A i, j \in 1..Len(rows) : i < j =>
        /\ rows[i].id < rows[j].id
        /\ TextLeq(rows[i].taken_at, rows[j].taken_at)

FirstQuery == dash.pc = "idle" /\ dash'.pc = "q2"

\* C7 as stated: taken_at does not decrease with insertion, and the first
\* query of a render returns the row inserted last.
C7_Original ==
    [][ /\ Monotonic(Rows')
        /\ (FirstQuery /\ Rows # <<>>) => dash'.last = Some(Rows[Len(Rows)])
      ]_vars

\* What the code does keep of C7: taken_at (compared as the stored text) does
\* not decrease with insertion, so the row inserted last has the greatest
\* taken_at; the first query of a render returns a row with that greatest
\* taken_at, and it is the row inserted last whenever no earlier row has the
\* same taken_at.
C7_LatestUnlessTie ==
    [][ /\ Monotonic(Rows')
        /\ (FirstQuery /\ Rows # <<>>) =>
              /\ ~IsNone(dash'.last)
              /\ Val(dash'.last).taken_at = Rows[Len(Rows)].taken_at
              /\ \A i \in 1..Len(Rows) : TextLeq(Rows[i].taken_at, Val(dash'.last).taken_at)
              /\ (\A i \in 1..(Len(Rows) - 1) : Rows[i].taken_at # Rows[Len(Rows)].taken_at)
                    => dash'.last = Some(Rows[Len(Rows)])
      ]_vars

\* Two rows with the same taken_at, and a first query that returned the one
\* inserted first.
C7_Witness ==
    /\ dash.pc = "q2"
    /\ Len(Rows) = 2
    /\ Rows[1].taken_at = Rows[2].taken_at
    /\ dash.last = Some(Rows[1])

\* C10 as stated: in a finished render the latest record is the first row of
\* the table when there is one, and an empty table comes with no latest
\* record and an empty series.
C10_Original ==
    dash.pc = "render" =>
        /\ dash.table # <<>> => dash.last = Some(dash.table[1])
        /\ dash.table = <<>> => IsNone(dash.last) /\ dash.series = <<>>

ThirdQuery == dash.pc = "q3" /\ dash'.pc = "render"

TopIsUnique(rows) ==
    \A i \in 1..(Len(rows) - 1) : rows[i].taken_at # rows[Len(rows)].taken_at

\* C10 as amended: the three queries of a render each read the rows committed
\* at their own time.  When the third query runs on an empty store the render
\* has no latest record, an empty series and an empty table.  A latest record
\* is never newer than the first row of the table, which then exists.  When
\* no upload committed since the first query, the latest record and the first
\* row of the table have the same taken_at, and are the same row if only one
\* row has that taken_at.  A table whose render has no latest record holds
\* only rows committed after the first query.
C10_QueriesReadSeparately ==
    [][ ThirdQuery =>
          /\ Rows = <<>> => IsNone(dash'.last) /\ dash'.series = <<>> /\ dash'.table = <<>>
          /\ ~IsNone(dash'.last) =>
                /\ dash'.table # <<>>
                /\ TextLeq(Val(dash'.last).taken_at, dash'.table[1].taken_at)
          /\ (db.seq = dash.seen /\ Rows # <<>>) =>
                /\ ~IsNone(dash'.last)
                /\ Val(dash'.last).taken_at = dash'.table[1].taken_at
                /\ TopIsUnique(Rows) => dash'.last = Some(dash'.table[1])
          /\ IsNone(dash'.last) =>
                \A i \in 1..Len(dash'.table) : dash'.table[i].id > dash.seen
      ]_vars

\* C10 witness: a finished render with no latest record and a row in its
\* table: an upload committed between the first and the third query.
C10_Witness ==
    /\ dash.pc = "render"
    /\ IsNone(dash.last)
    /\ Len(dash.table) = 1
    /\ dash.seen < db.seq

----------------------------------------------------------------------------
(* The layered algorithm of the number parser, stated on its own: what a   *)
(* token is, where the patterns match, and which value each layer gives.   *)

\* 1-2 digits, then optionally a period and 1-2 digits.
IsUnsignedToken(w) ==
    \E nd \in 1..2, nf \in 0..2 :
        /\ Len(w) = nd + (IF nf = 0 THEN 0 ELSE nf + 1)
        /\ \A k \in 1..nd : w[k] \in DigitSet
        /\ nf > 0 => w[nd + 1] = "." /\ \A k \in 1..nf : w[nd + 1 + k] \in DigitSet

IsSignedToken(w) ==
    \/ IsUnsignedToken(w)
    \/ Len(w) >= 2 /\ w[1] = "-" /\ IsUnsignedToken(Tail(w))

Piece(t, p, e) == SubSeq(t, p, e - 1)

Ends(t, p) == (p + 1)..(Len(t) + 1)

HasToken(t, p) == \E e \in Ends(t, p) : IsSignedToken(Piece(t, p, e))

\* The end of the longest signed token that starts at p.
TokenEnd(t, p) ==
    CHOOSE e \in Ends(t, p) :
        /\ IsSignedToken(Piece(t, p, e))
        /\ \A f \in Ends(t, p) : IsSignedToken(Piece(t, p, f)) => f <= e

\* The numeric tokens of t from p on, left to right, none overlapping.
RECURSIVE Tokens(_, _)
Tokens(t, p) ==
    IF p > Len(t) THEN <<>>
    ELSE IF HasToken(t, p) THEN <<Piece(t, p, TokenEnd(t, p))>> \o Tokens(t, TokenEnd(t, p))
    ELSE Tokens(t, p + 1)

RECURSIVE DigitsValue(_)
DigitsValue(w) ==
    IF w = <<>> THEN 0 ELSE 10 * DigitsValue(SubSeq(w, 1, Len(w) - 1)) + DigitVal(w[Len(w)])

\* The value of a token, in hundredths.
TokenValue(w) ==
    LET neg == w[1] = "-"
        body == IF neg THEN Tail(w) ELSE w
        whole == SelectSeq(body, LAMBDA c : c # ".")
        nfrac == IF \E k \in 1..Len(body) : body[k] = "."
                 THEN Len(body) - (CHOOSE k \in 1..Len(body) : body[k] = ".")
                 ELSE 0
        scaled == IF nfrac = 0 THEN 100 * DigitsValue(whole)
                  ELSE IF nfrac = 1 THEN 10 * DigitsValue(whole)
                  ELSE DigitsValue(whole)
    IN  IF neg THEN 0 - scaled ELSE scaled

AllSpace(t, a, b) == \A k \in a..(b - 1) : IsSpace(t[k])

LabelWords ==
    { <<>>, <<"t">>, <<"t", "e", "m", "p">>,
      <<"t", "e", "m", "p", "e", "r", "a", "t", "u", "r", "a">> }

IsLabel(w) == [k \in 1..Len(w) |-> Lower(w[k])] \in LabelWords

\* The temperature pattern matches from s with its number starting at g:
\* an optional label, blanks, an optional ':' or '=', blanks, a signed token.
TempMatches(t, s, g) ==
    \E a \in {s + Len(w) : w \in LabelWords} :
        /\ a <= Len(t) + 1
        /\ IsLabel(Piece(t, s, a))
        /\ \E b \in a..g :
              /\ AllSpace(t, a, b)
              /\ \E c \in {b, b + 1} :
                    /\ c <= g
                    /\ c = b + 1 => t[b] \in {":", "="}
                    /\ AllSpace(t, c, g)
                    /\ HasToken(t, g)

TempStarts(t) == {s \in 1..Len(t) : \E g \in s..Len(t) : TempMatches(t, s, g)}

Least(S) == CHOOSE x \in S : \A y \in S : x <= y

\* The value of the first match of the temperature pattern.
FirstTemp(t) ==
    LET s == Least(TempStarts(t))
        g == CHOOSE h \in s..Len(t) : TempMatches(t, s, h)
    IN  TokenValue(Piece(t, g, TokenEnd(t, g)))

\* The humidity pattern matches from s with its number ending at e: an
\* unsigned token, then (if gap) blanks, then a percent sign.
HumMatches(t, s, e, gap) ==
    /\ IsUnsignedToken(Piece(t, s, e))
    /\ \E q \in e..Len(t) :
          /\ gap \/ q = e
          /\ AllSpace(t, e, q)
          /\ t[q] = "%"

HumStarts(t, gap) == {s \in 1..Len(t) : \E e \in Ends(t, s) : HumMatches(t, s, e, gap)}

\* The value of the first match of the humidity pattern.
FirstHum(t, gap) ==
    LET s == Least(HumStarts(t, gap))
        e == CHOOSE f \in Ends(t, s) : HumMatches(t, s, f, gap)
    IN  TokenValue(Piece(t, s, e))

\* The layers in order: the temperature pattern, the humidity pattern, and for
\* a field still missing the first (temperature) or second (humidity) token.
Layered(t0, gap) ==
    LET t == [k \in 1..Len(t0) |-> IF t0[k] = "," THEN "." ELSE t0[k]]
        toks == Tokens(t, 1)
        temp == IF TempStarts(t) # {} THEN Some(FirstTemp(t))
                ELSE IF Len(toks) >= 1 THEN Some(TokenValue(toks[1]))
                ELSE None
        hum == IF HumStarts(t, gap) # {} THEN Some(FirstHum(t, gap))
               ELSE IF Len(toks) >= 2 THEN Some(TokenValue(toks[2]))
               ELSE None
    IN  <<temp, hum>>

Parsed == ~IsNone(presult)

IsReading(r) ==
    /\ Len(r) = 2
    /\ \A k \in 1..2 : IsNone(r[k]) \/ (Len(r[k]) = 1 /\ r[k][1] \in Int)

\* C2 as stated: the result is a pair of optional numbers, the one the layers
\* give when the humidity pattern wants the percent sign right after the
\* number; the three examples give (23.5, 61), (27, 55) and (None, None).
C2_Original ==
    Parsed =>
        /\ IsReading(Val(presult))
        /\ Val(presult) = Layered(ptext, FALSE)

\* C2 as amended: the result is a pair of optional numbers, the one the layers
\* give when the humidity pattern allows blanks between the number and the
\* percent sign; the three examples give (23.5, 61), (27, 55) and
\* (None, None).
C2_LayeredWithBlanks ==
    Parsed =>
        /\ IsReading(Val(presult))
        /\ Val(presult) = Layered(ptext, TRUE)
        /\ ptext = <<"t", "e", "m", "p", ":", " ", "2", "3", ".", "5", ",", " ",
                     "h", "u", "m", "i", "d", "i", "t", "y", " ", "6", "1", "%">>
              => Val(presult) = <<Some(2350), Some(6100)>>
        /\ ptext = <<"2", "7", " ", "5", "5">> => Val(presult) = <<Some(2700), Some(5500)>>
        /\ ptext = <<"x", "y", "z">> => Val(presult) = <<None, None>>

\* C2 witness: "61 % 27" was parsed: the humidity is the 61 before the blank
\* and the percent sign, not the second token.
C2_Witness ==
    /\ ptext = <<"6", "1", " ", "%", " ", "2", "7">>
    /\ presult = Some(<<Some(6100), Some(6100)>>)

====
